---------------------------- MODULE Spec2Model ----------------------------
(***************************************************************************)
(* The HTTP transport of influxdb-cxx (src/src/HTTP.cxx) and the transport *)
(* factory (src/src/InfluxDBFactory.cxx).                                  *)
(*                                                                         *)
(* A std::string is a sequence of one-character strings, so that find,     *)
(* substr and at act on positions as they do in the code.  Positions are   *)
(* 0-based as in C++.  Text that the code only stores and concatenates     *)
(* (payloads, tokens, messages) is written with one element per chunk.     *)
(* A std::optional<T> is the empty sequence (nullopt) or <<v>>.            *)
(***************************************************************************)
EXTENDS Integers, Sequences, FiniteSets, TLC

VARIABLES pc, arg, ret, transport, session, wire, response

vars == <<pc, arg, ret, transport, session, wire, response>>

---------------------------------------------------------------------------
(* Bounds of the model *)

\* Largest number of pieces appended to a prefix to form a URL.
MaxParams == 2

---------------------------------------------------------------------------
(* std::string *)

\* std::string::npos, the largest size_t: 0 - 1 in size_t arithmetic.
npos == -1

\* s.substr(pos): the characters from 0-based position pos to the end.
substrFrom(s, pos) == SubSeq(s, pos + 1, Len(s))

\* s.substr(pos, n): n characters from 0-based position pos.
substr(s, pos, n) == SubSeq(s, pos + 1, pos + n)

\* Whether pat occurs in s at 0-based position i.
occursAt(s, pat, i) ==
    /\ i >= 0
    /\ i + Len(pat) <= Len(s)
    /\ SubSeq(s, i + 1, i + Len(pat)) = pat

\* s.find(pat): the first position pat occurs at, or npos.
find(s, pat) ==
    LET hits == {i \in 0..Len(s) : occursAt(s, pat, i)}
    IN  IF hits = {} THEN npos
        ELSE CHOOSE i \in hits : \A j \in hits : i <= j

\* String literals of the code.
QMARK == <<"?">>
AMP == <<"&">>
EQ == <<"=">>
SLASH == "/"
DB == <<"d", "b">>
RP == <<"r", "p">>
BUCKET == <<"b", "u", "c", "k", "e", "t">>
ORG == <<"o", "r", "g">>
QUERY_PATH == <<"/", "q", "u", "e", "r", "y">>
WRITE_PATH == <<"/", "w", "r", "i", "t", "e">>
CREATE_DATABASE == <<"C", "R", "E", "A", "T", "E", " ",
                     "D", "A", "T", "A", "B", "A", "S", "E", " ">>
TOKEN_PREFIX == <<"T", "o", "k", "e", "n", " ">>
APPLICATION_JSON == <<"application/json">>

---------------------------------------------------------------------------
(* Results of a call: a value returned or an exception thrown *)

NoValue == <<>>

Return(v) ==
    [raised |-> FALSE, type |-> "none", what |-> "", code |-> 0,
     detail |-> <<>>, value |-> v]

\* throw InfluxDBException{what}
Throw(what) ==
    [raised |-> TRUE, type |-> "InfluxDBException", what |-> what, code |-> 0,
     detail |-> <<>>, value |-> NoValue]

\* throw InfluxDBException{what + std::to_string(code) + ") " + detail}
ThrowCode(what, code, detail) ==
    [raised |-> TRUE, type |-> "InfluxDBException", what |-> what, code |-> code,
     detail |-> detail, value |-> NoValue]

\* An exception of the standard library (std::out_of_range,
\* std::bad_optional_access) leaving the function.
ThrowStd(type) ==
    [raised |-> TRUE, type |-> type, what |-> "", code |-> 0,
     detail |-> <<>>, value |-> NoValue]

---------------------------------------------------------------------------
(* The connection descriptor parser *)

\* url.at(questionMarkPosition - 1) throws std::out_of_range when the index,
\* a size_t, is not below url.size(): for questionMarkPosition = 0 the index
\* wraps to npos.
parseUrl(url) ==
    LET questionMarkPosition == find(url, QMARK)
    IN  IF questionMarkPosition = npos THEN Return(url)
        ELSE IF questionMarkPosition - 1 = npos
                \/ questionMarkPosition - 1 >= Len(url)
             THEN ThrowStd("std::out_of_range")
        ELSE IF url[(questionMarkPosition - 1) + 1] = SLASH
             THEN Return(substr(url, 0, questionMarkPosition - 1))
        ELSE Return(substr(url, 0, questionMarkPosition))

parseParameter_OffByOne(url, name) ==
    LET pos1 == find(url, QMARK \o name \o EQ)
        pos  == IF pos1 = npos THEN find(url, AMP \o name \o EQ) ELSE pos1
    IN  IF pos = npos THEN <<>>
        ELSE LET sub == substrFrom(url, pos + 1 + Len(name))
                 separatorPos == find(sub, AMP)
             IN  IF separatorPos # npos
                 THEN <<substr(sub, 0, separatorPos)>>
                 ELSE <<sub>>

parseParameter(url, name) ==
    LET pos1 == find(url, QMARK \o name \o EQ)
        pos  == IF pos1 = npos THEN find(url, AMP \o name \o EQ) ELSE pos1
    IN  IF pos = npos THEN <<>>
        ELSE LET sub == substrFrom(url, pos + 2 + Len(name))
                 separatorPos == find(sub, AMP)
             IN  IF separatorPos # npos
                 THEN <<substr(sub, 0, separatorPos)>>
                 ELSE <<sub>>

parseDatabaseName(url) == parseParameter(url, DB)

parseRetentionPolicy(url) == parseParameter(url, RP)

parseBucket(url) == parseParameter(url, BUCKET)

parseOrganization(url) == parseParameter(url, ORG)

---------------------------------------------------------------------------
(* The transport object and its session *)

Versions == {"v1", "v2"}

\* A cpr::Header is a map from header names to values; a name maps to <<>>
\* when the map holds no entry for it and to <<value>> when it does.
HeaderKeys == {"Authorization", "Content-Type"}

EmptyHeader == [k \in HeaderKeys |-> <<>>]

NoTransport ==
    [endpointUrl |-> <<>>, databaseName |-> <<>>, retentionPolicyName |-> <<>>,
     bucketName |-> <<>>, organization |-> <<>>, endpointVersion |-> "none",
     header |-> EmptyHeader]

\* A cpr::Session nothing has been set on: url, body, auth, proxies and
\* proxyAuth are unset (<<>>) or <<value>>; parameters is the list of
\* <<key, value>> pairs.
NoSession ==
    [timeout |-> 0, connectTimeout |-> 0, url |-> <<>>, parameters |-> <<>>,
     header |-> EmptyHeader, body |-> <<>>, auth |-> <<>>, proxies |-> <<>>,
     proxyAuth |-> <<>>]

\* The members after the constructor's body has run, before its checks.
Members(url, version) ==
    [endpointUrl |-> parseUrl(url).value,
     databaseName |-> parseDatabaseName(url),
     retentionPolicyName |-> parseRetentionPolicy(url),
     bucketName |-> parseBucket(url),
     organization |-> parseOrganization(url),
     endpointVersion |-> version,
     header |-> EmptyHeader]

\* The constructor from its member initialisers on: endpoint is what
\* parseUrl(url) gave (an exception of it leaves the constructor), m the
\* members; then the checks of the endpoint version.
Constructed(endpoint, m) ==
    IF endpoint.raised THEN endpoint
    ELSE IF m.endpointVersion = "v1"
    THEN IF m.databaseName = <<>>
         THEN Throw("No Database specified in URL")
         ELSE IF m.bucketName # <<>>
         THEN Throw("Bucket provided in URL but not supported for endpoint v1")
         ELSE Return(m)
    ELSE IF m.databaseName # <<>>
         THEN Throw("Database provided in URL but not supported for endpoint v2")
    ELSE IF m.retentionPolicyName # <<>>
         THEN Throw("Retention policy provided in URL but not supported for endpoint v2")
    ELSE IF m.bucketName = <<>>
         THEN Throw("Bucket is required as URL parameter for endpoint version v2")
    ELSE IF m.organization = <<>>
         THEN Throw("Organization is required as URL parameter for endpoint version v2")
    ELSE Return(m)

\* HTTP::HTTP: the constructed object, or the exception that leaves the
\* constructor (then no object exists).
HTTP(url, version) == Constructed(parseUrl(url), Members(url, version))

\* The session of a constructed transport: both timeouts set to 10 seconds.
NewSession == [NoSession EXCEPT !.timeout = 10, !.connectTimeout = 10]

---------------------------------------------------------------------------
(* URLs handed to the parser and to the constructor *)

Prefixes == {<<>>, <<"h">>}

UrlNames == {DB, RP, BUCKET, ORG, <<"x">> \o DB}

UrlValues == {<<>>, <<"x">>, <<"y">>}

Pieces ==
    {<<sep>> \o name \o EQ \o value :
        sep \in {"?", "&"}, name \in UrlNames, value \in UrlValues}
    \cup {<<"?">>, <<"/">>}

RECURSIVE Tails(_)
Tails(k) ==
    IF k = 0 THEN {<<>>}
    ELSE LET shorter == Tails(k - 1)
         IN  shorter \cup {t \o p : t \in shorter, p \in Pieces}

Urls == {pre \o t : pre \in Prefixes, t \in Tails(MaxParams)}

ParamNames == {DB, RP, BUCKET, ORG}

\* The call last made: the function and the arguments the properties refer to.
NoArg ==
    [fn |-> "none", url |-> <<>>, name |-> <<>>, version |-> "none", text |-> <<>>]

NoResponse ==
    [error |-> [code |-> 0, message |-> <<>>], status_code |-> 0,
     reason |-> <<>>, text |-> <<>>]

---------------------------------------------------------------------------
(* Initial state: nothing called, no transport *)

Init ==
    /\ pc = "idle"
    /\ arg = NoArg
    /\ ret = Return(NoValue)
    /\ transport = NoTransport
    /\ session = NoSession
    /\ wire = <<>>
    /\ response = NoResponse

---------------------------------------------------------------------------
(* Calls of the parser and of the constructor on a URL *)

CallParseUrl ==
    /\ pc = "idle"
    /\ \E url \in Urls :
        /\ arg' = [NoArg EXCEPT !.fn = "parseUrl", !.url = url]
        /\ ret' = parseUrl(url)
    /\ pc' = "returned"
    /\ UNCHANGED <<transport, session, wire, response>>

CallParseParameter ==
    /\ pc = "idle"
    /\ \E url \in Urls, name \in ParamNames :
        /\ arg' = [NoArg EXCEPT !.fn = "parseParameter", !.url = url, !.name = name]
        /\ ret' = Return(parseParameter(url, name))
    /\ pc' = "returned"
    /\ UNCHANGED <<transport, session, wire, response>>

Construct ==
    /\ pc = "idle"
    /\ \E url \in Urls, version \in Versions :
        LET r == HTTP(url, version)
        IN  /\ arg' = [NoArg EXCEPT !.fn = "HTTP", !.url = url, !.version = version]
            /\ ret' = IF r.raised THEN r ELSE Return(NoValue)
            /\ transport' = IF r.raised THEN NoTransport ELSE r.value
            /\ session' = IF r.raised THEN NoSession ELSE NewSession
            /\ pc' = IF r.raised THEN "failed" ELSE "live"
    /\ UNCHANGED <<wire, response>>

NextUrl == CallParseUrl \/ CallParseParameter \/ Construct

SpecUrl == Init /\ [][NextUrl]_vars

---------------------------------------------------------------------------
(* The response translator *)

\* cpr::status::is_success: the 2xx codes.
is_success(status_code) == status_code >= 200 /\ status_code < 300

checkResponse_StatusFirst(resp) ==
    IF ~is_success(resp.status_code)
    THEN ThrowCode("Request failed: (", resp.status_code, resp.reason)
    ELSE IF resp.error.code # 0
    THEN ThrowCode("Request error: (", resp.error.code, resp.error.message)
    ELSE Return(NoValue)

\* resp.error converts to true when its code is not cpr::ErrorCode::OK (0).
checkResponse(resp) ==
    IF resp.error.code # 0
    THEN ThrowCode("Request error: (", resp.error.code, resp.error.message)
    ELSE IF ~is_success(resp.status_code)
    THEN ThrowCode("Request failed: (", resp.status_code, resp.reason)
    ELSE Return(NoValue)

---------------------------------------------------------------------------
(* The parameter builder *)

parameters_V2BucketFirst(t) ==
    IF t.endpointVersion = "v1"
    THEN IF t.databaseName = <<>> THEN ThrowStd("std::bad_optional_access")
         ELSE Return(<< <<"db", t.databaseName[1]>> >>
                     \o (IF t.retentionPolicyName # <<>>
                         THEN << <<"rp", t.retentionPolicyName[1]>> >>
                         ELSE <<>>))
    ELSE IF t.endpointVersion = "v2"
    THEN IF t.organization = <<>> \/ t.bucketName = <<>>
         THEN ThrowStd("std::bad_optional_access")
         ELSE Return(<< <<"bucket", t.bucketName[1]>>,
                        <<"org", t.organization[1]>> >>)
    ELSE Throw("Not implemented for current endpoint version")

\* HTTP::parameters: optional::value() throws std::bad_optional_access on an
\* empty optional.
parameters(t) ==
    IF t.endpointVersion = "v1"
    THEN IF t.databaseName = <<>> THEN ThrowStd("std::bad_optional_access")
         ELSE Return(<< <<"db", t.databaseName[1]>> >>
                     \o (IF t.retentionPolicyName # <<>>
                         THEN << <<"rp", t.retentionPolicyName[1]>> >>
                         ELSE <<>>))
    ELSE IF t.endpointVersion = "v2"
    THEN IF t.organization = <<>> \/ t.bucketName = <<>>
         THEN ThrowStd("std::bad_optional_access")
         ELSE Return(<< <<"org", t.organization[1]>>,
                        <<"bucket", t.bucketName[1]>> >>)
    ELSE Throw("Not implemented for current endpoint version")

---------------------------------------------------------------------------
(* The session: what a setter stores, and the request Get and Post issue *)

\* The request a session issues: its URL, parameters, headers, body and
\* authentication as last set.  A body set on the session is sent with a
\* GET as well.
Request(method, s) ==
    [method |-> method, url |-> s.url, parameters |-> s.parameters,
     header |-> s.header, body |-> s.body, auth |-> s.auth]

\* sendHeader.insert(header.begin(), header.end()): std::map::insert keeps
\* the entry of a key the map already holds.
HeaderInsert(base, extra) ==
    [k \in HeaderKeys |-> IF base[k] # <<>> THEN base[k] ELSE extra[k]]

---------------------------------------------------------------------------
(* Inputs of the transport's life *)

\* A parsed URI (http::url) as GetTransport hands it to the constructor of
\* a transport: the scheme, the user-info and the URL.
FactoryUrls ==
    {<<"h", "/">> \o QMARK \o DB \o EQ \o <<"x">>,
     <<"h">> \o QMARK \o DB \o EQ \o <<"x">> \o AMP \o RP \o EQ \o <<"y">>,
     <<"h">> \o QMARK \o ORG \o EQ \o <<"x">> \o AMP \o BUCKET \o EQ \o <<"y">>,
     <<"h">> \o QMARK \o DB \o EQ \o <<"x">> \o AMP \o ORG \o EQ \o <<"y">>,
     <<"h">>}

Protocols == {"", "http", "https", "ftp"}

ParsedUrls ==
    [protocol : Protocols, user : {<<>>, <<"user">>}, password : {<<"pw">>},
     url : FactoryUrls]

Proxies ==
    {[proxy |-> <<"proxy">>, auth |-> <<>>],
     [proxy |-> <<"proxy">>, auth |-> <<[user |-> <<"puser">>, password |-> <<"ppw">>]>>]}

ApiTokens == {<<"t1">>, <<"t2">>}

OptionsSet ==
    [endpointVersion : {<<>>, <<"v1">>, <<"v2">>},
     proxy : {<<>>} \cup {<<p>> : p \in Proxies},
     apiToken : {<<>>} \cup {<<t>> : t \in ApiTokens}]

Texts == {<<"SELECT">>, <<"SHOW">>}

Payloads == {<<"cpu value=1">>}

\* What the server or the network may answer.
Responses ==
    {[error |-> [code |-> 0, message |-> <<>>], status_code |-> c,
      reason |-> <<"reason">>, text |-> <<"body">>] : c \in {199, 200, 299, 300, 404}}
    \cup
    {[error |-> [code |-> 0, message |-> <<>>], status_code |-> 204,
      reason |-> <<"No Content">>, text |-> <<>>]}
    \cup
    {[error |-> [code |-> 7, message |-> m], status_code |-> c,
      reason |-> <<>>, text |-> <<>>] : m \in {<<>>, <<"refused">>}, c \in {0, 200}}

---------------------------------------------------------------------------
(* The setters *)

\* session.SetAuth(cpr::Authentication{user, pass, cpr::AuthMode::BASIC})
setBasicAuthenticationOn(s, user, pass) ==
    [s EXCEPT !.auth = <<[user |-> user, password |-> pass, mode |-> "BASIC"]>>]

\* header["Authorization"] = "Token " + apiToken
setApiTokenOn(t, apiToken) ==
    [t EXCEPT !.header = [@ EXCEPT !["Authorization"] = <<TOKEN_PREFIX \o apiToken>>]]

setProxyOn(s, proxy) ==
    LET s1 == [s EXCEPT !.proxies = <<[http |-> proxy.proxy, https |-> proxy.proxy]>>]
    IN  IF proxy.auth # <<>>
        THEN [s1 EXCEPT !.proxyAuth = <<[http |-> proxy.auth[1], https |-> proxy.auth[1]]>>]
        ELSE s1

---------------------------------------------------------------------------
(* The transport factory *)

\* internal::withHttpTransport: the transport and its session, or the
\* exception of the constructor.
WithUserInfo(r, uri) ==
    IF r.raised THEN r
    ELSE Return([transport |-> r.value,
                 session |-> IF uri.user # <<>>
                             THEN setBasicAuthenticationOn(NewSession, uri.user, uri.password)
                             ELSE NewSession])

withHttpTransport(uri, version) == WithUserInfo(HTTP(uri.url, version), uri)

\* InfluxDBFactory::GetTransport for the schemes bound to the HTTP transport;
\* the sibling transports (udp, tcp, unix) are not modelled.
GetTransport(parsedUrl, version) ==
    IF parsedUrl.protocol = "" THEN Throw("Ill-formed URI")
    ELSE IF parsedUrl.protocol \notin {"http", "https"}
    THEN Throw("Unrecognized backend ")
    ELSE withHttpTransport(parsedUrl, version)

\* The state after a factory call that returned r.
Built(fn, r) ==
    /\ arg' = [NoArg EXCEPT !.fn = fn]
    /\ ret' = IF r.raised THEN r ELSE Return(NoValue)
    /\ transport' = IF r.raised THEN NoTransport ELSE r.value.transport
    /\ session' = IF r.raised THEN NoSession ELSE r.value.session
    /\ pc' = IF r.raised THEN "failed" ELSE "live"
    /\ wire' = <<>>
    /\ response' = NoResponse

CallGetTransport ==
    /\ pc = "idle"
    /\ \E parsedUrl \in ParsedUrls, version \in Versions :
        Built("GetTransport", GetTransport(parsedUrl, version))

\* InfluxDBFactory::Get(url, version)
CallGet ==
    /\ pc = "idle"
    /\ \E parsedUrl \in ParsedUrls, version \in Versions :
        Built("Get", GetTransport(parsedUrl, version))

\* InfluxDBFactory::Get(url, proxy)
\* transport->setProxy(proxy) on what GetTransport returned, if it returned.
WithProxy(r, proxy) ==
    IF r.raised THEN r
    ELSE Return([transport |-> r.value.transport,
                 session |-> setProxyOn(r.value.session, proxy)])

CallGetProxy ==
    /\ pc = "idle"
    /\ \E parsedUrl \in ParsedUrls, proxy \in Proxies :
        Built("GetProxy", WithProxy(GetTransport(parsedUrl, "v1"), proxy))

\* The proxy and the API token of the options, set on what GetTransport
\* returned, if it returned.
WithOptions(r, options) ==
    IF r.raised THEN r
    ELSE Return([transport |-> IF options.apiToken # <<>>
                               THEN setApiTokenOn(r.value.transport, options.apiToken[1])
                               ELSE r.value.transport,
                 session |-> IF options.proxy # <<>>
                             THEN setProxyOn(r.value.session, options.proxy[1])
                             ELSE r.value.session])

GetWithOptions(parsedUrl, options) ==
    WithOptions(GetTransport(parsedUrl,
                             IF options.endpointVersion # <<>>
                             THEN options.endpointVersion[1] ELSE "v1"),
                options)

CallGetWithOptions ==
    /\ pc = "idle"
    /\ \E parsedUrl \in ParsedUrls, options \in OptionsSet :
        Built("GetWithOptions", GetWithOptions(parsedUrl, options))

---------------------------------------------------------------------------
(* The operations of a transport *)

setBasicAuthentication ==
    /\ pc = "live"
    /\ \E user \in {<<"user">>}, pass \in {<<"pw">>} :
        session' = setBasicAuthenticationOn(session, user, pass)
    /\ arg' = [NoArg EXCEPT !.fn = "setBasicAuthentication"]
    /\ ret' = Return(NoValue)
    /\ wire' = <<>>
    /\ response' = NoResponse
    /\ UNCHANGED <<pc, transport>>

setApiToken ==
    /\ pc = "live"
    /\ \E apiToken \in ApiTokens :
        transport' = setApiTokenOn(transport, apiToken)
    /\ arg' = [NoArg EXCEPT !.fn = "setApiToken"]
    /\ ret' = Return(NoValue)
    /\ wire' = <<>>
    /\ response' = NoResponse
    /\ UNCHANGED <<pc, session>>

setProxy ==
    /\ pc = "live"
    /\ \E proxy \in Proxies :
        session' = setProxyOn(session, proxy)
    /\ arg' = [NoArg EXCEPT !.fn = "setProxy"]
    /\ ret' = Return(NoValue)
    /\ wire' = <<>>
    /\ response' = NoResponse
    /\ UNCHANGED <<pc, transport>>

\* The state after session.Get() or session.Post() returned resp and
\* checkResponse(resp) ran; withText says whether the operation returns
\* response.text.
Issued(method, s, resp, withText) ==
    /\ session' = s
    /\ wire' = <<Request(method, s)>>
    /\ response' = resp
    /\ ret' = IF checkResponse(resp).raised THEN checkResponse(resp)
              ELSE IF withText THEN Return(resp.text) ELSE Return(NoValue)

\* An exception left the operation before any request was issued.
Aborted(s, exception) ==
    /\ session' = s
    /\ wire' = <<>>
    /\ response' = NoResponse
    /\ ret' = exception

query ==
    /\ pc = "live"
    /\ \E text \in Texts, resp \in Responses :
        LET s1 == [session EXCEPT !.url = <<transport.endpointUrl \o QUERY_PATH>>]
            p  == parameters(transport)
        IN  /\ arg' = [NoArg EXCEPT !.fn = "query", !.text = text]
            /\ IF p.raised THEN Aborted(s1, p)
               ELSE Issued("GET",
                           [s1 EXCEPT !.parameters = Append(p.value, <<"q", text>>)],
                           resp, TRUE)
    /\ UNCHANGED <<pc, transport>>

send ==
    /\ pc = "live"
    /\ \E lineprotocol \in Payloads, resp \in Responses :
        LET sendHeader ==
                HeaderInsert([EmptyHeader EXCEPT !["Content-Type"] = <<APPLICATION_JSON>>],
                             transport.header)
            s1 == [session EXCEPT !.url = <<transport.endpointUrl \o WRITE_PATH>>,
                                  !.header = sendHeader]
            p  == parameters(transport)
        IN  /\ arg' = [NoArg EXCEPT !.fn = "send", !.text = lineprotocol]
            /\ IF p.raised THEN Aborted(s1, p)
               ELSE Issued("POST",
                           [s1 EXCEPT !.parameters = p.value, !.body = <<lineprotocol>>],
                           resp, FALSE)
    /\ UNCHANGED <<pc, transport>>

execute ==
    /\ pc = "live"
    /\ \E cmd \in Texts, resp \in Responses :
        LET s1 == [session EXCEPT !.url = <<transport.endpointUrl \o QUERY_PATH>>]
            p  == parameters(transport)
        IN  /\ arg' = [NoArg EXCEPT !.fn = "execute", !.text = cmd]
            /\ IF p.raised THEN Aborted(s1, p)
               ELSE Issued("GET",
                           [s1 EXCEPT !.parameters = Append(p.value, <<"q", cmd>>)],
                           resp, TRUE)
    /\ UNCHANGED <<pc, transport>>

createDatabase_NoGuard ==
    /\ pc = "live"
    /\ arg' = [NoArg EXCEPT !.fn = "createDatabase"]
    /\ \E resp \in Responses :
        LET s1 == [session EXCEPT !.url = <<transport.endpointUrl \o QUERY_PATH>>]
        IN  Issued("POST",
                   [s1 EXCEPT !.parameters =
                       << <<"q", CREATE_DATABASE \o
                                 (IF transport.databaseName = <<>> THEN <<>>
                                  ELSE transport.databaseName[1])>> >>],
                   resp, FALSE)
    /\ UNCHANGED <<pc, transport>>

createDatabase ==
    /\ pc = "live"
    /\ arg' = [NoArg EXCEPT !.fn = "createDatabase"]
    /\ IF transport.endpointVersion # "v1"
       THEN Aborted(session, Throw("Database only supported for endpoint v1"))
       ELSE \E resp \in Responses :
            LET s1 == [session EXCEPT !.url = <<transport.endpointUrl \o QUERY_PATH>>]
            IN  IF transport.databaseName = <<>>
                THEN Aborted(s1, ThrowStd("std::bad_optional_access"))
                ELSE Issued("POST",
                            [s1 EXCEPT !.parameters =
                                << <<"q", CREATE_DATABASE \o transport.databaseName[1]>> >>],
                            resp, FALSE)
    /\ UNCHANGED <<pc, transport>>

Next ==
    \/ CallGetTransport
    \/ CallGet
    \/ CallGetProxy
    \/ CallGetWithOptions
    \/ setBasicAuthentication
    \/ setApiToken
    \/ setProxy
    \/ query
    \/ send
    \/ execute
    \/ createDatabase

Spec == Init /\ [][Next]_vars

---------------------------------------------------------------------------
(* Properties of the parser and of the constructor, under SpecUrl *)

\* The URL carries the parameter: "?name=" or "&name=" occurs in it.
HasParam(url, name) ==
    \E i \in 0..Len(url) :
        occursAt(url, QMARK \o name \o EQ, i) \/ occursAt(url, AMP \o name \o EQ, i)

\* The constructor was called on arg.url and arg.version and threw.
ConstructionFailed == pc = "failed" /\ ret.raised /\ transport = NoTransport

\* C1: for every URL and endpoint version the constructor fails when the
\* version is V1 and the URL has no db or has a bucket, and when the version
\* is V2 and the URL lacks bucket or org or has db or rp; every other URL (V1
\* with db and without bucket, V2 with bucket and org and without db and rp)
\* constructs.
C1_ConstructionFailsExactlyWhenInvalid ==
    arg.fn = "HTTP" =>
        IF \/ arg.version = "v1" /\ ~HasParam(arg.url, DB)
           \/ arg.version = "v1" /\ HasParam(arg.url, BUCKET)
           \/ arg.version = "v2" /\ (~HasParam(arg.url, BUCKET) \/ ~HasParam(arg.url, ORG))
           \/ arg.version = "v2" /\ (HasParam(arg.url, DB) \/ HasParam(arg.url, RP))
        THEN ConstructionFailed
        ELSE pc = "live" /\ ~ret.raised

\* C2: every constructed V1 transport has a database that is present and not
\* empty, and neither a bucket nor an organization.
C2_V1DescriptorInvariant ==
    (arg.fn = "HTTP" /\ pc = "live" /\ transport.endpointVersion = "v1") =>
        /\ transport.databaseName # <<>>
        /\ transport.databaseName[1] # <<>>
        /\ transport.bucketName = <<>>
        /\ transport.organization = <<>>

\* The 1-based position of the first '?' of a URL that has one.
FirstQuestionMark(url) ==
    CHOOSE i \in 1..Len(url) : url[i] = "?" /\ \A j \in 1..(i - 1) : url[j] # "?"

\* C6: parseUrl returns a URL without '?' unchanged; of a URL with a '?' it
\* returns the text before the first '?', less the '/' immediately before
\* that '?' when there is one; this for every position of the first '?',
\* the first character of the URL included.
C6_EndpointOfEveryUrl ==
    arg.fn = "parseUrl" =>
        /\ ~ret.raised
        /\ IF \A i \in 1..Len(arg.url) : arg.url[i] # "?"
           THEN ret.value = arg.url
           ELSE IF FirstQuestionMark(arg.url) > 1
                   /\ arg.url[FirstQuestionMark(arg.url) - 1] = "/"
                THEN ret.value = SubSeq(arg.url, 1, FirstQuestionMark(arg.url) - 2)
                ELSE ret.value = SubSeq(arg.url, 1, FirstQuestionMark(arg.url) - 1)

\* The 0-based positions pat occurs at in url.
Occurrences(url, pat) == {i \in 0..Len(url) : occursAt(url, pat, i)}

\* The occurrence parseParameter matches: the first "?name=" when there is
\* one, else the first "&name=".
Matched(url, name) ==
    IF Occurrences(url, QMARK \o name \o EQ) # {}
    THEN CHOOSE i \in Occurrences(url, QMARK \o name \o EQ) :
             \A j \in Occurrences(url, QMARK \o name \o EQ) : i <= j
    ELSE CHOOSE i \in Occurrences(url, AMP \o name \o EQ) :
             \A j \in Occurrences(url, AMP \o name \o EQ) : i <= j

\* v is the text of url from 1-based position first up to, and excluding, the
\* next '&' or the end of url.
IsValueAt(url, first, v) ==
    /\ first + Len(v) - 1 <= Len(url)
    /\ \A k \in 1..Len(v) : v[k] = url[first + k - 1] /\ v[k] # "&"
    /\ first + Len(v) = Len(url) + 1 \/ url[first + Len(v)] = "&"

\* C7: for every URL and every name among db, rp, bucket, org, parseParameter
\* returns absent, without an error, when neither "?name=" nor "&name=" occurs
\* in the URL (a "xdb=" is no "db="); otherwise it returns the characters
\* after the "name=" of the matched occurrence up to, and excluding, the next
\* '&' or the end of the URL, whether the parameter is the first or a later
\* one.
C7_ParseParameter ==
    arg.fn = "parseParameter" =>
        /\ ~ret.raised
        /\ IF ~HasParam(arg.url, arg.name)
           THEN ret.value = <<>>
           ELSE /\ Len(ret.value) = 1
                /\ IsValueAt(arg.url,
                             Matched(arg.url, arg.name) + Len(arg.name) + 3,
                             ret.value[1])

\* A parameter introduced by '&' ("&db=y", no "?db=" in the URL) is found and
\* its value, cut at the next '&', returned.
C7_Witness ==
    /\ arg.fn = "parseParameter"
    /\ arg.name = DB
    /\ arg.url = <<"h">> \o AMP \o DB \o EQ \o <<"y">> \o AMP \o RP \o EQ \o <<"x">>
    /\ ret.value = <<<<"y">>>>

---------------------------------------------------------------------------
(* Properties of a transport's operations, under Spec *)

NetworkOps == {"query", "execute", "send", "createDatabase"}

\* C3: createDatabase on a V2 transport raises, issues no request and leaves
\* the session as it was, whatever was called before; on a V1 transport it
\* issues exactly one POST to endpoint + "/query" whose only parameter is
\* q = "CREATE DATABASE " + database.
C3_CreateDatabase ==
    [][(pc = "live" /\ arg'.fn = "createDatabase") =>
          IF transport.endpointVersion = "v1"
          THEN /\ Len(wire') = 1
               /\ wire'[1].method = "POST"
               /\ wire'[1].url = <<transport.endpointUrl \o QUERY_PATH>>
               /\ wire'[1].parameters =
                      << <<"q", CREATE_DATABASE \o transport.databaseName[1]>> >>
          ELSE /\ ret'.raised
               /\ ret'.type = "InfluxDBException"
               /\ wire' = <<>>
               /\ session' = session]_vars

\* createDatabase threw on a V2 transport after a send had set the URL, the
\* parameters and the body of the session.
C3_Witness ==
    /\ arg.fn = "createDatabase"
    /\ transport.endpointVersion = "v2"
    /\ ret.raised
    /\ wire = <<>>
    /\ session.url = <<transport.endpointUrl \o WRITE_PATH>>
    /\ session.body # <<>>

\* C4: of a response returned to query, execute, send or createDatabase: a
\* transport-level error raises a request error with the error's code and
\* message, whatever the status; else a status outside 2xx raises a
\* request-failed error with the status and the reason; else nothing is
\* raised and query and execute return the body text.
C4_ResponseTranslation ==
    (arg.fn \in NetworkOps /\ wire # <<>>) =>
        IF response.error.code # 0
        THEN /\ ret.raised
             /\ ret.what = "Request error: ("
             /\ ret.code = response.error.code
             /\ ret.detail = response.error.message
        ELSE IF response.status_code < 200 \/ response.status_code > 299
        THEN /\ ret.raised
             /\ ret.what = "Request failed: ("
             /\ ret.code = response.status_code
             /\ ret.detail = response.reason
        ELSE /\ ~ret.raised
             /\ arg.fn \in {"query", "execute"} => ret.value = response.text

\* A query got a response with a transport-level error, an empty message and
\* status 200, and raised the request error.
C4_Witness ==
    /\ arg.fn = "query"
    /\ wire # <<>>
    /\ response.error.code = 7
    /\ response.error.message = <<>>
    /\ response.status_code = 200
    /\ ret.raised
    /\ ret.what = "Request error: ("

\* C5: the parameters of a request are, in order, under V1 db = database,
\* then rp = retentionPolicy if and only if there is one; under V2
\* org = organization, bucket = bucket and neither db nor rp; query and
\* execute append q = text as the last one, send adds none; and building them
\* never raises (the request is issued).
C5_Parameters ==
    (pc = "live" /\ arg.fn \in {"query", "execute", "send"}) =>
        /\ Len(wire) = 1
        /\ ret.raised => ret.what \in {"Request error: (", "Request failed: ("}
        /\ wire[1].parameters = session.parameters
        /\ LET params == session.parameters
               withQ  == IF arg.fn = "send" THEN 0 ELSE 1
               withRp == IF transport.retentionPolicyName # <<>> THEN 1 ELSE 0
           IN  /\ withQ = 1 => params[Len(params)] = <<"q", arg.text>>
               /\ IF transport.endpointVersion = "v1"
                  THEN /\ Len(params) = 1 + withRp + withQ
                       /\ params[1] = <<"db", transport.databaseName[1]>>
                       /\ withRp = 1 =>
                              params[2] = <<"rp", transport.retentionPolicyName[1]>>
                  ELSE /\ Len(params) = 2 + withQ
                       /\ params[1] = <<"org", transport.organization[1]>>
                       /\ params[2] = <<"bucket", transport.bucketName[1]>>
                       /\ \A i \in 1..Len(params) : params[i][1] \notin {"db", "rp"}

\* A query on a V1 transport with a retention policy carried db, rp and q.
C5_Witness ==
    /\ arg.fn = "query"
    /\ transport.endpointVersion = "v1"
    /\ transport.retentionPolicyName # <<>>
    /\ Len(wire) = 1
    /\ Len(wire[1].parameters) = 3

\* C8: a transport of the factory never has both HTTP Basic credentials set
\* on its session and an Authorization token header stored, whatever setters
\* were called on it.
C8_AtMostOneAuthenticationStyle ==
    pc = "live" =>
        ~(session.auth # <<>> /\ transport.header["Authorization"] # <<>>)

\* C9: query and execute issue a GET to endpoint + "/query" that carries no
\* body, whatever was called before.
C9_ReadCarriesNoBody ==
    (arg.fn \in {"query", "execute"} /\ wire # <<>>) =>
        /\ wire[1].method = "GET"
        /\ wire[1].url = <<transport.endpointUrl \o QUERY_PATH>>
        /\ wire[1].body = <<>>

\* C10: once an API token is set, every request issued afterwards carries the
\* header Authorization: Token <token>.
C10_TokenOnEveryRequest ==
    (arg.fn \in NetworkOps /\ wire # <<>>
        /\ transport.header["Authorization"] # <<>>) =>
        wire[1].header["Authorization"] = transport.header["Authorization"]

===========================================================================
